---- MODULE Spec2Model ----
(***************************************************************************)
(* Notes API (app/crud.py, app/routers/notes.py, app/schemas.py).          *)
(*                                                                         *)
(* The store is two tables: users and notes.  A table is a sequence of     *)
(* rows in the order a query without ORDER BY scans them.  Every handler   *)
(* is one action that performs the whole request and leaves its response   *)
(* in resp; the two user-write operations are split at the point where     *)
(* the code goes from its existence checks to its commit, so that          *)
(* concurrent requests interleave there.                                   *)
(*                                                                         *)
(* No query of the code has an ORDER BY.  The model scans a table in the   *)
(* order its rows were inserted, an update keeps a row's place, and two    *)
(* queries on the same table state see the same order.                     *)
(*                                                                         *)
(* Optional[T] values are sequences of length at most one: None is <<>>    *)
(* and a present value v is <<v>>.  created_at / updated_at are not        *)
(* modelled: no operation reads them.                                      *)
(***************************************************************************)
EXTENDS Integers, Sequences, FiniteSets, TLC

VARIABLES
    users,      \* users table: rows [id, email, username, hashed_password, is_active]
    userSeq,    \* next value of the users.id sequence
    notes,      \* notes table: rows [id, title, content, is_public, owner_id]
    noteSeq,    \* next value of the notes.id sequence
    sessions,   \* per worker: the in-flight create_user / update_user call
    resp,       \* the response of the last completed request
    creator,    \* history: note id -> the authenticated caller that created it
    deleted     \* history: note ids whose DELETE succeeded

vars == <<users, userSeq, notes, noteSeq, sessions, resp, creator, deleted>>

-----------------------------------------------------------------------------
(* Bounds of the model *)

MaxNoteId == 2      \* notes ever created
MaxPage   == 2      \* largest skip and limit a list request carries

Titles    == {"t1", "t2"}
Contents  == {"c1", "c2"}
Emails    == {"a@x.com", "b@x.com"}
Usernames == {"alice", "bob"}
Passwords == {"pw1", "pw2"}
Workers   == {1, 2}

ANON == 0           \* a request without a valid bearer token

None == <<>>
Some(v) == <<v>>
Opt(S) == {None} \cup {Some(v) : v \in S}

Min(a, b) == IF a < b THEN a ELSE b

-----------------------------------------------------------------------------
(* Query helpers: filter / first / offset / limit / all *)

first(q) == IF Len(q) = 0 THEN None ELSE Some(q[1])

offset(q, skip) == SubSeq(q, skip + 1, Len(q))

limit(q, n) == SubSeq(q, 1, Min(n, Len(q)))

Ids(q) == {q[i].id : i \in 1..Len(q)}

Rows(q) == {q[i] : i \in 1..Len(q)}

-----------------------------------------------------------------------------
(* Requests and responses *)

EmptyBody == [k \in {} |-> TRUE]

Response(op, user, status, detail) ==
    [op |-> op, user |-> user, status |-> status, detail |-> detail,
     note_id |-> 0, skip |-> 0, limit |-> 0, body |-> EmptyBody, notes |-> <<>>]

NoResponse == Response("none", ANON, 0, "")

Unauthorized(op) == Response(op, ANON, 401, "Could not validate credentials")

\* Depends(get_current_active_user): the user row of the bearer token's
\* subject, None when the token is missing or invalid.
get_current_active_user(requester) ==
    first(SelectSeq(users, LAMBDA u : u.id = requester /\ u.is_active))

-----------------------------------------------------------------------------
(* Note CRUD (app/crud.py) *)

\* mutant: the owner filter is missing
get_note_any_owner(db, note_id, user_id) ==
    first(SelectSeq(db, LAMBDA n : n.id = note_id))

get_note(db, note_id, user_id) ==
    first(SelectSeq(db, LAMBDA n : n.id = note_id /\ n.owner_id = user_id))

\* mutant: the is_public filter is missing
get_public_note_unfiltered(db, note_id) ==
    first(SelectSeq(db, LAMBDA n : n.id = note_id))

get_public_note(db, note_id) ==
    first(SelectSeq(db, LAMBDA n : n.id = note_id /\ n.is_public = TRUE))

\* mutant: the offset is dropped
get_user_notes_no_offset(db, user_id, skip, lim) ==
    limit(SelectSeq(db, LAMBDA n : n.owner_id = user_id), lim)

get_user_notes(db, user_id, skip, lim) ==
    limit(offset(SelectSeq(db, LAMBDA n : n.owner_id = user_id), skip), lim)

\* mutant: the is_public filter is missing
get_public_notes_unfiltered(db, skip, lim) ==
    limit(offset(db, skip), lim)

get_public_notes(db, skip, lim) ==
    limit(offset(SelectSeq(db, LAMBDA n : n.is_public = TRUE), skip), lim)

-----------------------------------------------------------------------------
(* Schemas (app/schemas.py).  A request body is a function from the JSON   *)
(* keys it carries to their values.                                        *)

NoteFields == {"title", "content", "is_public"}

\* NoteCreate(**body).dict(): title and content are required, is_public
\* defaults to False, keys the schema does not declare are dropped.
NoteCreate_dict(body) ==
    [title     |-> body.title,
     content   |-> body.content,
     is_public |-> IF "is_public" \in DOMAIN body THEN body.is_public ELSE FALSE]

\* NoteUpdate(**body): every field is Optional with default None; the
\* fields the body carried are remembered in fields_set.
NoteUpdate(body) ==
    [fields_set |-> DOMAIN body \cap NoteFields,
     title      |-> IF "title" \in DOMAIN body THEN body.title ELSE None,
     content    |-> IF "content" \in DOMAIN body THEN body.content ELSE None,
     is_public  |-> IF "is_public" \in DOMAIN body THEN body.is_public ELSE None]

\* note_update.dict(exclude_unset=True)
NoteUpdate_dict(note_update) ==
    [f \in note_update.fields_set |-> note_update[f]]

\* Note(**note.dict(), owner_id=user_id), with the id the insert assigns
Note(fields, user_id, id) ==
    [id |-> id, title |-> fields.title, content |-> fields.content,
     is_public |-> fields.is_public, owner_id |-> user_id]

\* mutant: a field the request did not carry is reset to its schema default
setattr_all_reset_unset(row, update_data) ==
    [f \in DOMAIN row |->
        IF f \in DOMAIN update_data THEN update_data[f][1]
        ELSE IF f = "is_public" THEN FALSE ELSE row[f]]

\* for field, value in update_data.items(): setattr(db_note, field, value)
setattr_all(row, update_data) ==
    [f \in DOMAIN row |->
        IF f \in DOMAIN update_data THEN update_data[f][1] ELSE row[f]]

\* The store rejects a NULL in a note column (IntegrityError at commit).
NotNullViolation(update_data) ==
    \E f \in DOMAIN update_data : update_data[f] = None

\* The store rejects a note whose owner_id is no users.id (foreign key).
ForeignKeyViolation(row) ==
    \A i \in 1..Len(users) : users[i].id # row.owner_id

CreateBodies ==
    {b @@ p @@ o :
        b \in [title : Titles, content : Contents],
        p \in {EmptyBody} \cup {"is_public" :> v : v \in BOOLEAN},
        o \in {EmptyBody} \cup {"owner_id" :> v : v \in {1, 2}}}

UpdateBodies ==
    {t @@ c @@ p :
        t \in {EmptyBody} \cup {"title" :> v : v \in Opt(Titles)},
        c \in {EmptyBody} \cup {"content" :> v : v \in Opt(Contents)},
        p \in {EmptyBody} \cup {"is_public" :> v : v \in Opt(BOOLEAN)}}

Requesters == {ANON, 1, 2}

ReqNoteIds == 1..(MaxNoteId + 1)

-----------------------------------------------------------------------------
(* Request handlers (app/routers/notes.py) with the crud call each makes.  *)
(* resp echoes the request (op, user, note_id, skip, limit and, when the   *)
(* request succeeded, body) next to what the response carries (status,     *)
(* detail, notes).                                                         *)

\* A handler runs when the previous response has been sent.
Ready == resp = NoResponse

NotesFrame == Ready /\ UNCHANGED <<users, userSeq, sessions>>

\* The framework serialises the handler's return value (or the HTTPException)
\* and the request ends.
respond ==
    /\ resp # NoResponse
    /\ resp' = NoResponse
    /\ UNCHANGED <<users, userSeq, notes, noteSeq, sessions, creator, deleted>>

\* mutant: an owner_id in the request body wins over the caller
new_note_owner_from_body(body, user_id, id) ==
    Note(NoteCreate_dict(body),
         IF "owner_id" \in DOMAIN body THEN body.owner_id ELSE user_id, id)

\* db_note = Note(**note.dict(), owner_id=user_id)
new_note(body, user_id, id) == Note(NoteCreate_dict(body), user_id, id)

\* POST /notes/
create_user_note(requester, body) ==
    LET current_user == get_current_active_user(requester)
        db_note == new_note(body, current_user[1].id, noteSeq)
    IN  /\ noteSeq <= MaxNoteId
        /\ NotesFrame
        /\ IF current_user = None
           THEN /\ resp' = Unauthorized("create_note")
                /\ UNCHANGED <<notes, noteSeq, creator, deleted>>
           ELSE IF ForeignKeyViolation(db_note)
           THEN /\ resp' = Response("create_note", requester, 400, "Note creation failed")
                /\ UNCHANGED <<notes, noteSeq, creator, deleted>>
           ELSE /\ notes' = Append(notes, db_note)
                /\ noteSeq' = noteSeq + 1
                /\ creator' = (noteSeq :> requester) @@ creator
                /\ resp' = [Response("create_note", requester, 201, "") EXCEPT
                               !.note_id = noteSeq, !.body = body, !.notes = <<db_note>>]
                /\ UNCHANGED deleted

\* GET /notes/
read_user_notes(requester, skip, lim) ==
    LET current_user == get_current_active_user(requester)
    IN  /\ NotesFrame
        /\ UNCHANGED <<notes, noteSeq, creator, deleted>>
        /\ IF current_user = None
           THEN resp' = Unauthorized("read_user_notes")
           ELSE resp' = [Response("read_user_notes", requester, 200, "") EXCEPT
                            !.skip = skip, !.limit = lim,
                            !.notes = get_user_notes(notes, current_user[1].id, skip, lim)]

\* GET /notes/public
read_public_notes(skip, lim) ==
    /\ NotesFrame
    /\ UNCHANGED <<notes, noteSeq, creator, deleted>>
    /\ resp' = [Response("read_public_notes", ANON, 200, "") EXCEPT
                   !.skip = skip, !.limit = lim,
                   !.notes = get_public_notes(notes, skip, lim)]

\* mutant: no public fallback
read_note_lookup_own_only(db, note_id, user_id) == get_note(db, note_id, user_id)

\* The lookups of read_note: the caller's own note, else the public note.
read_note_lookup(db, note_id, user_id) ==
    LET note == get_note(db, note_id, user_id)
    IN  IF note # None THEN note ELSE get_public_note(db, note_id)

\* What read_note answers an authenticated caller.
read_note_outcome(db, note_id, user_id) ==
    LET note == read_note_lookup(db, note_id, user_id)
    IN  IF note # None
        THEN [status |-> 200, detail |-> "", notes |-> note]
        ELSE [status |-> 404, detail |-> "Note not found", notes |-> <<>>]

\* GET /notes/{note_id}
read_note(requester, note_id) ==
    LET current_user == get_current_active_user(requester)
        out == read_note_outcome(notes, note_id, current_user[1].id)
    IN  /\ NotesFrame
        /\ UNCHANGED <<notes, noteSeq, creator, deleted>>
        /\ IF current_user = None
           THEN resp' = [Unauthorized("read_note") EXCEPT !.note_id = note_id]
           ELSE resp' = [Response("read_note", requester, out.status, out.detail) EXCEPT
                            !.note_id = note_id, !.notes = out.notes]

\* PUT /notes/{note_id}
update_user_note(requester, note_id, body) ==
    LET current_user == get_current_active_user(requester)
        db_note == get_note(notes, note_id, current_user[1].id)
        update_data == NoteUpdate_dict(NoteUpdate(body))
        updated == setattr_all(db_note[1], update_data)
    IN  /\ NotesFrame
        /\ UNCHANGED <<noteSeq, creator, deleted>>
        /\ IF current_user = None
           THEN /\ resp' = [Unauthorized("update_note") EXCEPT !.note_id = note_id]
                /\ UNCHANGED notes
           ELSE IF db_note = None
           THEN /\ resp' = [Response("update_note", requester, 404, "Note not found") EXCEPT
                               !.note_id = note_id]
                /\ UNCHANGED notes
           ELSE IF NotNullViolation(update_data)
           THEN /\ resp' = [Response("update_note", requester, 400, "Note update failed") EXCEPT
                               !.note_id = note_id]
                /\ UNCHANGED notes
           ELSE /\ notes' = [i \in 1..Len(notes) |->
                                IF notes[i].id = note_id THEN updated ELSE notes[i]]
                /\ resp' = [Response("update_note", requester, 200, "") EXCEPT
                               !.note_id = note_id, !.body = body, !.notes = <<updated>>]

\* mutant: the delete is never flushed
db_delete_noop(db, db_note) == db

\* db.delete(db_note); db.commit()
db_delete(db, db_note) == SelectSeq(db, LAMBDA n : n.id # db_note.id)

\* DELETE /notes/{note_id}
delete_user_note(requester, note_id) ==
    LET current_user == get_current_active_user(requester)
        db_note == get_note(notes, note_id, current_user[1].id)
    IN  /\ NotesFrame
        /\ UNCHANGED <<noteSeq, creator>>
        /\ IF current_user = None
           THEN /\ resp' = [Unauthorized("delete_note") EXCEPT !.note_id = note_id]
                /\ UNCHANGED <<notes, deleted>>
           ELSE IF db_note = None
           THEN /\ resp' = [Response("delete_note", requester, 404, "Note not found") EXCEPT
                               !.note_id = note_id]
                /\ UNCHANGED <<notes, deleted>>
           ELSE /\ notes' = db_delete(notes, db_note[1])
                /\ deleted' = deleted \cup {note_id}
                /\ resp' = [Response("delete_note", requester, 200, "Note deleted successfully") EXCEPT
                               !.note_id = note_id]

-----------------------------------------------------------------------------
(* User CRUD (app/crud.py) *)

get_password_hash(password) == <<"hash", password>>

\* mutant: the lookup compares the wrong column
get_user_by_email_wrong_column(db, email) ==
    first(SelectSeq(db, LAMBDA u : u.username = email))

get_user_by_email(db, email) ==
    first(SelectSeq(db, LAMBDA u : u.email = email))

get_user_by_username(db, username) ==
    first(SelectSeq(db, LAMBDA u : u.username = username))

\* User(email=..., username=..., hashed_password=...), with the id the
\* insert assigns and the is_active column default
User(id, email, username, hashed_password) ==
    [id |-> id, email |-> email, username |-> username,
     hashed_password |-> hashed_password, is_active |-> TRUE]

\* The uniqueness constraints on users.email and users.username: the
\* store rejects a commit that would leave two rows with the same value.
UniqueViolation(table) ==
    \E i, j \in 1..Len(table) :
        /\ i # j
        /\ \/ table[i].email = table[j].email
           \/ table[i].username = table[j].username

\* The checks create_user makes before it writes: the detail of the
\* HTTPException raised, "" when both pass.
create_user_check(db, user) ==
    IF get_user_by_email(db, user.email) # None THEN "Email already registered"
    ELSE IF get_user_by_username(db, user.username) # None THEN "Username already taken"
    ELSE ""

\* user_update.dict(exclude_unset=True) with the password replaced by its hash
user_update_data(body) ==
    IF "password" \in DOMAIN body
    THEN [f \in (DOMAIN body \ {"password"}) \cup {"hashed_password"} |->
             IF f = "hashed_password" THEN get_password_hash(body.password) ELSE body[f]]
    ELSE body

\* The checks update_user makes before it writes.
update_user_check(db, user_id, update_data) ==
    LET by_email == get_user_by_email(db, update_data.email)
        by_username == get_user_by_username(db, update_data.username)
    IN  IF "email" \in DOMAIN update_data /\ by_email # None /\ by_email[1].id # user_id
        THEN "Email already registered"
        ELSE IF "username" \in DOMAIN update_data /\ by_username # None
                /\ by_username[1].id # user_id
        THEN "Username already taken"
        ELSE ""

RegisterBodies == [email : Emails, username : Usernames, password : Passwords]

ProfileBodies ==
    {e @@ u @@ p :
        e \in {EmptyBody} \cup {"email" :> v : v \in Emails},
        u \in {EmptyBody} \cup {"username" :> v : v \in Usernames},
        p \in {EmptyBody} \cup {"password" :> v : v \in Passwords}}

ReqUserIds == 1..(Cardinality(Emails) + 1)

Idle == [pc |-> "idle"]

UsersFrame == Ready /\ UNCHANGED <<notes, noteSeq, creator, deleted>>

\* create_user up to the try block: the two existence checks and the hash.
create_user_begin(w, user) ==
    LET detail == create_user_check(users, user)
    IN  /\ sessions[w].pc = "idle"
        /\ UsersFrame
        /\ UNCHANGED <<users, userSeq>>
        /\ IF detail # ""
           THEN /\ resp' = [Response("create_user", ANON, 400, detail) EXCEPT
                               !.body = [email |-> user.email, username |-> user.username]]
                /\ UNCHANGED sessions
           ELSE /\ sessions' = [sessions EXCEPT ![w] =
                       [pc |-> "create",
                        db_user |-> [email |-> user.email, username |-> user.username,
                                     hashed_password |-> get_password_hash(user.password)]]]
                /\ UNCHANGED resp

\* mutant: the row is written although the constraint is violated
create_user_commit_no_rollback(w) ==
    LET u == sessions[w].db_user
        db_user == User(userSeq, u.email, u.username, u.hashed_password)
    IN  /\ sessions[w].pc = "create"
        /\ UsersFrame
        /\ sessions' = [sessions EXCEPT ![w] = Idle]
        /\ users' = Append(users, db_user)
        /\ userSeq' = userSeq + 1
        /\ resp' = [Response("create_user", db_user.id, 201, "") EXCEPT
                       !.body = [email |-> u.email, username |-> u.username]]

\* create_user from db.add: commit, or rollback on IntegrityError.
create_user_commit(w) ==
    LET u == sessions[w].db_user
        db_user == User(userSeq, u.email, u.username, u.hashed_password)
    IN  /\ sessions[w].pc = "create"
        /\ UsersFrame
        /\ sessions' = [sessions EXCEPT ![w] = Idle]
        /\ IF UniqueViolation(Append(users, db_user))
           THEN /\ resp' = [Response("create_user", ANON, 400,
                                     "User creation failed due to constraint violation") EXCEPT
                               !.body = [email |-> u.email, username |-> u.username]]
                /\ UNCHANGED <<users, userSeq>>
           ELSE /\ users' = Append(users, db_user)
                /\ userSeq' = userSeq + 1
                /\ resp' = [Response("create_user", db_user.id, 201, "") EXCEPT
                               !.body = [email |-> u.email, username |-> u.username]]

\* update_user up to the try block: the lookup and the uniqueness checks.
update_user_begin(w, user_id, body) ==
    LET db_user == first(SelectSeq(users, LAMBDA u : u.id = user_id))
        update_data == user_update_data(body)
        detail == update_user_check(users, user_id, update_data)
    IN  /\ sessions[w].pc = "idle"
        /\ UsersFrame
        /\ UNCHANGED <<users, userSeq>>
        /\ IF db_user = None
           THEN /\ resp' = Response("update_user", user_id, 404, "User not found")
                /\ UNCHANGED sessions
           ELSE IF detail # ""
           THEN /\ resp' = Response("update_user", user_id, 400, detail)
                /\ UNCHANGED sessions
           ELSE /\ sessions' = [sessions EXCEPT ![w] =
                       [pc |-> "update", user_id |-> user_id, update_data |-> update_data]]
                /\ UNCHANGED resp

\* update_user from the try block: setattr, then commit or rollback.
update_user_commit(w) ==
    LET user_id == sessions[w].user_id
        update_data == sessions[w].update_data
        table == [i \in 1..Len(users) |->
                     IF users[i].id = user_id
                     THEN [f \in DOMAIN users[i] |->
                              IF f \in DOMAIN update_data THEN update_data[f] ELSE users[i][f]]
                     ELSE users[i]]
    IN  /\ sessions[w].pc = "update"
        /\ UsersFrame
        /\ sessions' = [sessions EXCEPT ![w] = Idle]
        /\ UNCHANGED userSeq
        /\ IF UniqueViolation(table)
           THEN /\ resp' = Response("update_user", user_id, 400,
                                    "User update failed due to constraint violation")
                /\ UNCHANGED users
           ELSE /\ users' = table
                /\ resp' = Response("update_user", user_id, 200, "")

-----------------------------------------------------------------------------
(* The notes service with two registered users *)

Init ==
    /\ users = <<User(1, "a@x.com", "alice", get_password_hash("pw1")),
                  User(2, "b@x.com", "bob", get_password_hash("pw1"))>>
    /\ userSeq = 3
    /\ notes = <<>>
    /\ noteSeq = 1
    /\ sessions = [w \in Workers |-> Idle]
    /\ resp = NoResponse
    /\ creator = EmptyBody
    /\ deleted = {}

\* The server answers one request at a time; Ready is each handler's own
\* first conjunct, stated here before the request is drawn.
Next ==
    \/ Ready /\ \E r \in Requesters, body \in CreateBodies : create_user_note(r, body)
    \/ Ready /\ \E r \in Requesters, skip \in 0..MaxPage, lim \in 1..MaxPage :
                    read_user_notes(r, skip, lim)
    \/ Ready /\ \E skip \in 0..MaxPage, lim \in 1..MaxPage : read_public_notes(skip, lim)
    \/ Ready /\ \E r \in Requesters, id \in ReqNoteIds : read_note(r, id)
    \/ Ready /\ \E r \in Requesters, id \in ReqNoteIds, body \in UpdateBodies :
                    update_user_note(r, id, body)
    \/ Ready /\ \E r \in Requesters, id \in ReqNoteIds : delete_user_note(r, id)
    \/ respond

Spec == Init /\ [][Next]_vars

-----------------------------------------------------------------------------
(* Account management with concurrent workers, starting from no users *)

InitUsers ==
    /\ users = <<>>
    /\ userSeq = 1
    /\ notes = <<>>
    /\ noteSeq = 1
    /\ sessions = [w \in Workers |-> Idle]
    /\ resp = NoResponse
    /\ creator = EmptyBody
    /\ deleted = {}

NextUsers ==
    \/ Ready /\ \E w \in Workers, user \in RegisterBodies : create_user_begin(w, user)
    \/ Ready /\ \E w \in Workers : create_user_commit(w)
    \/ Ready /\ \E w \in Workers, id \in ReqUserIds, body \in ProfileBodies :
                    update_user_begin(w, id, body)
    \/ Ready /\ \E w \in Workers : update_user_commit(w)
    \/ respond

SpecUsers == InitUsers /\ [][NextUsers]_vars

-----------------------------------------------------------------------------
(* Properties *)

\* A step in which a handler produced the response resp'.
Handled(op) == resp = NoResponse /\ resp' # NoResponse /\ resp'.op = op

\* C1: read_note answers a user who asks for another user's private note
\* with 404 "Note not found", which is what the same user gets on this
\* table for every id that is not stored.
C1_PrivateNoteReadsAsAbsent ==
    \A i \in 1..Len(notes) :
       (/\ resp.op = "read_note" /\ resp.user # ANON /\ resp.note_id = notes[i].id
        /\ notes[i].owner_id # resp.user /\ ~notes[i].is_public) =>
          /\ resp.status = 404 /\ resp.detail = "Note not found" /\ resp.notes = <<>>
          /\ \A absent \in ReqNoteIds \ Ids(notes) :
                read_note_outcome(notes, absent, resp.user)
                   = [status |-> resp.status, detail |-> resp.detail, notes |-> resp.notes]

C1_Witness ==
    /\ resp.op = "read_note" /\ resp.status = 404 /\ resp.user # ANON
    /\ \E i \in 1..Len(notes) :
          resp.note_id = notes[i].id /\ notes[i].owner_id # resp.user /\ ~notes[i].is_public

\* C2 as stated: reading a public note succeeds for every requester, the
\* unauthenticated one included, and returns the stored note.
C2_Original_AnyRequesterReadsPublic ==
    \A i \in 1..Len(notes) :
       (resp.op = "read_note" /\ resp.note_id = notes[i].id /\ notes[i].is_public) =>
          /\ resp.status = 200 /\ resp.notes = <<notes[i]>>

\* C2 amended: reading a public note succeeds for every authenticated
\* requester, owner or not, and returns the stored note; the read leaves the
\* note as it was.  A requester without a valid token is answered 401.
C2_AuthenticatedReadsPublic ==
    \A i \in 1..Len(notes) :
       (resp.op = "read_note" /\ resp.note_id = notes[i].id /\ notes[i].is_public) =>
          IF resp.user = ANON
          THEN resp.status = 401 /\ resp.notes = <<>>
          ELSE resp.status = 200 /\ resp.notes = <<notes[i]>>

C2_Witness ==
    /\ resp.op = "read_note" /\ resp.status = 200 /\ resp.user # ANON
    /\ \E i \in 1..Len(notes) :
          /\ resp.note_id = notes[i].id /\ notes[i].is_public
          /\ notes[i].owner_id # resp.user /\ resp.notes = <<notes[i]>>

\* C3: an update or delete by an authenticated user who does not own the
\* note is answered 404 "Note not found", public note or private, and
\* leaves the notes table as it was.
C3_NonOwnerWriteNotFound ==
    [][\A i \in 1..Len(notes) :
          (/\ Handled("update_note") \/ Handled("delete_note")
           /\ resp'.user # ANON
           /\ resp'.note_id = notes[i].id
           /\ notes[i].owner_id # resp'.user) =>
             /\ resp'.status = 404 /\ resp'.detail = "Note not found"
             /\ notes' = notes]_vars

C3_Witness ==
    /\ resp.op \in {"update_note", "delete_note"} /\ resp.status = 404 /\ resp.user # ANON
    /\ \E i \in 1..Len(notes) :
          resp.note_id = notes[i].id /\ notes[i].owner_id # resp.user /\ notes[i].is_public

\* C4: every stored note is owned by the user that created it, whatever
\* owner_id the create request carried and whatever updates followed.
C4_OwnerIsCreator ==
    /\ Ids(notes) \subseteq DOMAIN creator
    /\ \A i \in 1..Len(notes) :
          /\ notes[i].owner_id = creator[notes[i].id]
          /\ notes[i].owner_id # ANON
    /\ (resp.op = "create_note" /\ resp.status = 201) => resp.notes[1].owner_id = resp.user

C4_Witness ==
    /\ resp.op = "create_note" /\ resp.status = 201
    /\ "owner_id" \in DOMAIN resp.body /\ resp.body.owner_id # resp.user
    /\ \E i \in 1..Len(notes) : notes[i].id = resp.note_id /\ notes[i].owner_id = resp.user

\* C5: a successful update_note is made by the owner and changes exactly
\* the fields the request carried: each of them takes the value sent, every
\* other field of the note keeps its value, and no other note changes.
C5_PartialUpdateFrame ==
    [][(Handled("update_note") /\ resp'.status = 200) =>
          /\ Len(notes') = Len(notes)
          /\ \A i \in 1..Len(notes) :
                IF notes[i].id = resp'.note_id
                THEN /\ notes[i].owner_id = resp'.user
                     /\ notes'[i].id = notes[i].id
                     /\ notes'[i].owner_id = notes[i].owner_id
                     /\ \A f \in NoteFields :
                           IF f \in DOMAIN resp'.body
                           THEN notes'[i][f] = resp'.body[f][1]
                           ELSE notes'[i][f] = notes[i][f]
                     /\ resp'.notes = <<notes'[i]>>
                ELSE notes'[i] = notes[i]
          /\ resp'.note_id \in Ids(notes)]_vars

C5_Witness ==
    /\ resp.op = "update_note" /\ resp.status = 200
    /\ DOMAIN resp.body = {"title"}
    /\ \E i \in 1..Len(notes) :
          notes[i].id = resp.note_id /\ notes[i].title = resp.body.title[1]

\* C6: the owner's delete of an existing note succeeds and removes it; a
\* delete of an id whose delete already succeeded is answered 404 "Note not
\* found" like the delete of an id that never existed, and changes nothing;
\* a deleted note is in no later response and never again in the table.
C6_DeleteThenNotFound ==
    [][/\ \A i \in 1..Len(notes) :
             (/\ Handled("delete_note") /\ resp'.note_id = notes[i].id
              /\ resp'.user = notes[i].owner_id) =>
                /\ resp'.status = 200
                /\ notes[i].id \notin Ids(notes')
                /\ notes[i].id \in deleted'
       /\ (Handled("delete_note") /\ resp'.user # ANON
           /\ (resp'.note_id \in deleted \/ resp'.note_id \notin DOMAIN creator)) =>
                /\ resp'.status = 404 /\ resp'.detail = "Note not found"
                /\ notes' = notes
       /\ deleted' \cap Ids(notes') = {}
       /\ deleted' \cap Ids(resp'.notes) = {}
       /\ deleted \subseteq deleted']_vars

C6_Witness ==
    /\ resp.op = "delete_note" /\ resp.status = 404
    /\ resp.note_id \in deleted
    /\ resp.user = creator[resp.note_id]

C9_PublicListIsPublicNotes ==
    /\ (resp.op = "read_public_notes" /\ resp.skip = 0 /\ resp.limit >= Len(notes)) =>
          Rows(resp.notes) = {n \in Rows(notes) : n.is_public}
    /\ (resp.op = "create_note" /\ resp.status = 201 /\ ~resp.notes[1].is_public) =>
          resp.note_id \notin Ids(get_public_notes(notes, 0, Len(notes)))
    /\ (/\ resp.op = "update_note" /\ resp.status = 200
        /\ "is_public" \in DOMAIN resp.body /\ resp.body.is_public = Some(TRUE)) =>
          resp.note_id \in Ids(get_public_notes(notes, 0, Len(notes)))

C9_Witness ==
    /\ resp.op = "read_public_notes" /\ resp.skip = 0 /\ resp.limit >= Len(notes)
    /\ Len(resp.notes) >= 1
    /\ \E n \in Rows(notes) : ~n.is_public
    /\ \E n \in Rows(resp.notes) : n.owner_id = 1
    /\ \E n \in Rows(notes) : n.owner_id = 2

Conflicts ==
    {"Email already registered", "Username already taken",
     "User creation failed due to constraint violation",
     "User update failed due to constraint violation"}

\* C7: a registration whose email is already stored fails: at its checks
\* it is answered 400 "Email already registered" and goes no further, and a
\* registration that reaches its commit when the email has been stored
\* meanwhile is answered 400 too; either way the users table is unchanged.
C7_DuplicateEmailRejected ==
    [][/\ \A w \in Workers, user \in RegisterBodies :
             (/\ create_user_begin(w, user)
              /\ \E i \in 1..Len(users) : users[i].email = user.email) =>
                /\ resp'.status = 400 /\ resp'.detail = "Email already registered"
                /\ sessions'[w].pc = "idle"
                /\ users' = users
       /\ \A w \in Workers :
             (/\ create_user_commit(w)
              /\ \E i \in 1..Len(users) : users[i].email = sessions[w].db_user.email) =>
                /\ resp'.status = 400 /\ resp'.detail \in Conflicts
                /\ users' = users]_vars

C7_Witness ==
    /\ resp.op = "create_user" /\ resp.status = 400
    /\ resp.detail = "Email already registered"
    /\ \E i \in 1..Len(users) : users[i].email = resp.body.email
    /\ \A i \in 1..Len(users) : users[i].username # resp.body.username

UniqueUsers(table) ==
    \A i, j \in 1..Len(table) :
        i # j => /\ table[i].id # table[j].id
                 /\ table[i].email # table[j].email
                 /\ table[i].username # table[j].username

\* C10: under every interleaving of the create_user and update_user steps
\* of concurrent workers no two users share an email or a username; a
\* commit that would make two do so is answered 400 and leaves the users
\* table unchanged, as does every other failed request.
C10_UsersStayUnique ==
    [][/\ UniqueUsers(users')
       /\ \A w \in Workers :
             (/\ sessions[w].pc = "create" /\ sessions'[w].pc = "idle"
              /\ \E i \in 1..Len(users) :
                    \/ users[i].email = sessions[w].db_user.email
                    \/ users[i].username = sessions[w].db_user.username) =>
                /\ resp'.status = 400 /\ users' = users
       /\ (Handled("create_user") \/ Handled("update_user")) =>
             (resp'.status = 400 => users' = users)]_vars

C10_Witness ==
    /\ resp.op = "create_user" /\ resp.status = 400
    /\ resp.detail = "User creation failed due to constraint violation"
    /\ \E i \in 1..Len(users) :
          \/ users[i].email = resp.body.email
          \/ users[i].username = resp.body.username

====
